---- MODULE Spec2Model ----
(***************************************************************************)
(* Model of backend/analysis.py: the Flask routes /start_process,          *)
(* /progress and /results, the coordinator thread fetch_and_process_data   *)
(* and the per-post collector threads process_comments, all sharing the    *)
(* two tables reddit_posts / reddit_comments and the three module globals  *)
(* PROGRESS, PROCESSING_DONE and TOTAL_POSTS.                              *)
(*                                                                         *)
(* Strings are sequences of one-character strings.  A database transaction *)
(* becomes visible at its commit, so merge(s)+commit is one step; a write  *)
(* that raises leaves the tables as they were (rollback).  Reads of the    *)
(* tables are assumed not to raise.                                        *)
(*                                                                         *)
(* datascraper.py, the stand-alone script over the same two tables in a    *)
(* sqlite file, is modelled next to it: fetch_reddit_data (INSERT OR       *)
(* IGNORE from several listings) and generate_word_matrix.  Its tables are *)
(* the variables sposts / scomments.  Texts are sequences of tokens.  The  *)
(* image analyze_data renders with WordCloud is left out of its result.    *)
(***************************************************************************)
EXTENDS Integers, Sequences, FiniteSets, TLC

\* ---------------------------------------------------------------- bounds
MaxRequests == 2        \* start requests served over the life of the process
MaxFound == 2           \* longest listing the search returns in the model
MaxLive == 2            \* listing entries held by all running coordinators
MaxSources == 2         \* listings the script walks in the model

\* ------------------------------------------------------ program constants
Limit == 49             \* limit handed to fetch_and_process_data
VeryPositiveAbove == 80 \* 0.8, sentiment in hundredths
PositiveAbove == 40     \* 0.4
NeutralFrom == -40      \* -0.4
NegativeFrom == -80     \* -0.8
Unit == 100             \* 1.0, the largest magnitude of a compound score
HeadRows == 5           \* value_counts().head(5)
TrendPositiveAbove == 40    \* df['sentiment'] > 0.4
TrendNegativeBelow == -40   \* df['sentiment'] < -0.4
SecondsPerDay == 86400  \* pd.to_datetime(unit='s') ... .dt.date
TopWords == 20          \* most_common(20) of generate_word_matrix
max_words == 25         \* WordCloud(max_words=25) of analyze_data

\* ------------------------------------------------------- external source
PostIds == {"p1", "p2"}
NoId == ""              \* a listing entry whose id is falsy
DummyId == "dummy"
DummyPhrase == <<"d", "u", "m", "m", "y">>

\* post.comments.list() after replace_more, in source order
CommentTree(p) ==
    CASE p = "p1" -> <<"c1", "c2">>
      [] p = "p2" -> <<"c3">>
      [] OTHER -> <<>>

\* every post the source knows; the search lists the ones in PostIds
Corpus == <<"p3", "p4", "p5", "p6", "p7", "p8", "p1", "p2">>

\* sia.polarity_scores(text)['compound'], in hundredths
Compound(p) ==
    CASE p = "p1" -> 60
      [] p = "p2" -> -90
      [] p = "p3" -> 50
      [] p = "p5" -> -50
      [] p = "p6" -> 40
      [] p = "p7" -> 90
      [] p = "p8" -> -40
      [] OTHER -> 0

\* post.subreddit.display_name
Subreddit(p) ==
    CASE p \in {"p1", "p2", "p8"} -> "cars"
      [] p = "p3" -> "tech"
      [] p = "p4" -> "news"
      [] p = "p5" -> "energy"
      [] p = "p6" -> "autos"
      [] p = "p7" -> "green"
      [] OTHER -> "dummy"

\* post.author.name if post.author else "N/A"
Author(p) ==
    CASE p \in {"p1", "p3"} -> "alice"
      [] p = "p2" -> "bob"
      [] p \in {"p4", "p5"} -> "N/A"
      [] p = "p6" -> "carol"
      [] p = "p7" -> "dave"
      [] p = "p8" -> "erin"
      [] OTHER -> "dummy"

\* int(post.created_utc), seconds since the epoch
CreatedUtc(p) ==
    CASE p = "p1" -> 86410
      [] p = "p2" -> 172799
      [] p = "p3" -> 172800
      [] p = "p4" -> 259205
      [] p = "p5" -> 345600
      [] p = "p6" -> 350000
      [] p = "p7" -> 200000
      [] p = "p8" -> 432001
      [] OTHER -> 0

\* values of search_phrase the clients send when they start a run and when
\* they ask for results ("" also stands for a request without the field)
StartPhrases == { <<>>, <<" ">>, <<" ", "a", " ">> }
ResultPhrases == StartPhrases \cup { <<"b">> }

Min(a, b) == IF a < b THEN a ELSE b

Range(s) == {s[i] : i \in 1..Len(s)}

\* listings reddit.subreddit("all").search(...) may return: at most Limit
\* entries, the real ids pairwise distinct
SearchResults ==
    LET Entries == PostIds \cup {NoId}
        Lists == UNION {[1..n -> Entries] : n \in 0..Min(MaxFound, Limit)}
    IN  {s \in Lists :
            \A i, j \in 1..Len(s) : (i # j /\ s[i] # NoId) => s[i] # s[j]}

\* ------------------------------------------------------------- str.strip
RECURSIVE LStrip(_)
LStrip(s) ==
    IF s # <<>> /\ Head(s) = " " THEN LStrip(Tail(s)) ELSE s

RECURSIVE RStrip(_)
RStrip(s) ==
    IF s # <<>> /\ s[Len(s)] = " " THEN RStrip(SubSeq(s, 1, Len(s) - 1)) ELSE s

Strip(s) == RStrip(LStrip(s))

\* ------------------------------------------------------------------ state
Requests == 1..MaxRequests
Slots == 1..MaxFound

VARIABLES
    posts,            \* committed rows of reddit_posts
    comments,         \* committed rows of reddit_comments
    PROGRESS,         \* module global, 0-100 percent
    PROCESSING_DONE,  \* module global
    TOTAL_POSTS,      \* module global
    pc,               \* per start request: where its handler / coordinator is
    phrase,           \* per start request: the stripped search phrase
    found,            \* per run: the listing `posts` of the coordinator
    written,          \* per run: outcome of each loop iteration so far
    col,              \* per run and listing index: the collector thread
    gpc,              \* the /results handler
    gphrase,          \* its stripped phrase
    resp,             \* the last /results response
    sposts,           \* datascraper.py: rows of its reddit_posts
    scomments,        \* datascraper.py: rows of its reddit_comments
    call              \* the last call of a function exercised on its own

vars == <<posts, comments, PROGRESS, PROCESSING_DONE, TOTAL_POSTS,
          pc, phrase, found, written, col, gpc, gphrase, resp,
          sposts, scomments, call>>

store == <<posts, comments>>
globals == <<PROGRESS, PROCESSING_DONE, TOTAL_POSTS>>
results == <<gpc, gphrase, resp>>
backend == <<store, globals, pc, phrase, found, written, col, results>>
script == <<sposts, scomments>>
aux == <<script, call>>

NoCollector == [pc |-> "none", post |-> NoId, k |-> 0, pending |-> {}]
NoResponse == [status |-> 0, error |-> "", body |-> <<>>]
NoCall == [fn |-> "", arg |-> <<>>, ret |-> <<>>]

Terminated == {"skipped", "failed", "committed", "rolledback"}
Settled == {"idle", "rejected400", "rejected500", "done", "fetchFailed", "crashed"}

\* ----------------------------------------------------------------- store
\* (variant: the existence checks dropped, every parent taken as present)
ParentAssumed(id) == TRUE

\* session.query(RedditPost).get(id)
ParentExists(id) == \E p \in posts : p.id = id

\* session.merge(row) on reddit_posts: insert, or replace the row of that id
MergePost(rows, row) == {p \in rows : p.id # row.id} \cup {row}

\* session.merge(rc) of every pending comment, then commit
MergeComments(rows, new) ==
    {c \in rows : \A n \in new : n.id # c.id} \cup new

PostRow(id, ph) ==
    [id |-> id, subreddit |-> Subreddit(id), author |-> Author(id),
     timestamp |-> CreatedUtc(id), sentiment |-> Compound(id),
     search_phrase |-> ph]
CommentRow(id, post) == [id |-> id, post_id |-> post]

Init ==
    /\ posts = {PostRow(DummyId, DummyPhrase)}
    /\ comments = {}
    /\ PROGRESS = 0
    /\ PROCESSING_DONE = FALSE
    /\ TOTAL_POSTS = 0
    /\ pc = [r \in Requests |-> "idle"]
    /\ phrase = [r \in Requests |-> <<>>]
    /\ found = [r \in Requests |-> <<>>]
    /\ written = [r \in Requests |-> <<>>]
    /\ col = [r \in Requests |-> [i \in Slots |-> NoCollector]]
    /\ gpc = "idle"
    /\ gphrase = <<>>
    /\ resp = NoResponse
    /\ sposts = <<>>
    /\ scomments = <<>>
    /\ call = NoCall


\* -------------------------------------------------------------- helpers
\* a thread that has returned leaves no state behind: its locals are gone
Reap(c) == IF c.pc \in Terminated THEN NoCollector ELSE c

NextRequest(r) == pc[r] = "idle" /\ \A q \in Requests : q < r => pc[q] # "idle"

\* the coordinator's local counter `processed`: iterations that passed the
\* `if post and post.id` test and have reached `processed += 1`
Processed(r) == Cardinality({i \in 1..Len(written[r]) : written[r][i] # "skip"})

RECURSIVE SumLen(_, _)
SumLen(f, S) ==
    IF S = {} THEN 0
    ELSE LET x == CHOOSE y \in S : TRUE IN Len(f[x]) + SumLen(f, S \ {x})

\* listing entries the coordinators in flight hold
Held == SumLen(found, Requests)

\* (variant: the quotient truncated before the scaling)
PercentTruncatedFirst(processed, total) == (processed \div total) * 100

\* int((processed / TOTAL_POSTS) * 100); the float quotient agrees with the
\* integer one for every total up to Limit
Percent(processed, total) == (processed * 100) \div total

\* (variant: the upper bounds taken as belonging to the class above)
sentiment_category_closed(compound) ==
    IF compound >= VeryPositiveAbove THEN "Very Positive"
    ELSE IF compound >= PositiveAbove THEN "Positive"
    ELSE IF compound >= NeutralFrom THEN "Neutral"
    ELSE IF compound >= NegativeFrom THEN "Negative"
    ELSE "Very Negative"

\* sentiment_category(compound), compound in hundredths
sentiment_category(compound) ==
    IF compound > VeryPositiveAbove THEN "Very Positive"
    ELSE IF compound > PositiveAbove THEN "Positive"
    ELSE IF compound >= NeutralFrom THEN "Neutral"
    ELSE IF compound >= NegativeFrom THEN "Negative"
    ELSE "Very Negative"

\* (variant: the WHERE clause left out)
QueryAllPosts(ph) == posts

\* SELECT * FROM reddit_posts WHERE search_phrase = :phrase
QueryPosts(ph) == {p \in posts : p.search_phrase = ph}

\* the place of a row in the frame: rows come in the order of Corpus
RowIndex(p) ==
    IF \E i \in 1..Len(Corpus) : Corpus[i] = p.id
    THEN CHOOSE i \in 1..Len(Corpus) : Corpus[i] = p.id
    ELSE 0

\* df[column].value_counts(): every value with its count and the place of
\* its first row; largest count first, equal counts in the order of the rows
value_counts(df, column) ==
    {<<p[column],
       Cardinality({q \in df : q[column] = p[column]}),
       RowIndex(p)>> :
        p \in {q \in df : \A o \in df :
                  o[column] = q[column] => RowIndex(q) <= RowIndex(o)}}

Before(items, it) ==
    {o \in items : o[2] > it[2] \/ (o[2] = it[2] /\ o[3] < it[3])}

\* (variant: the first n values in the order of the rows, not of the counts)
HeadUnsorted(items, n) ==
    {it \in items : Cardinality({o \in items : o[3] < it[3]}) < n}

\* .head(n) of the sorted counts
HeadOf(items, n) == {it \in items : Cardinality(Before(items, it)) < n}

\* .to_dict(): value -> count
ToDict(items) ==
    [v \in {it[1] : it \in items} |->
        (CHOOSE it \in items : it[1] = v)[2]]

\* pd.to_datetime(timestamp, unit='s').dt.date, as days since the epoch (the
\* key of the trend is this date printed as a string, one per date)
Date(timestamp) == timestamp \div SecondsPerDay

\* rows.groupby('date').size()
GroupSize(rows) ==
    [d \in {Date(p.timestamp) : p \in rows} |->
        Cardinality({p \in rows : Date(p.timestamp) = d})]

\* (variant: the two series joined on the dates they share)
ConcatInner(pos, neg) ==
    [d \in DOMAIN pos \cap DOMAIN neg |->
        [Positive |-> pos[d], Negative |-> neg[d]]]

\* pd.concat([pos, neg], axis=1).fillna(0) with its two columns named
Concat(pos, neg) ==
    [d \in DOMAIN pos \cup DOMAIN neg |->
        [Positive |-> IF d \in DOMAIN pos THEN pos[d] ELSE 0,
         Negative |-> IF d \in DOMAIN neg THEN neg[d] ELSE 0]]

\* analyze_data(phrase): {} for an empty frame, else the dictionary of the
\* results without its word_cloud image
analyze_data(ph) ==
    LET df == QueryPosts(ph)
        cats == {sentiment_category(p.sentiment) : p \in df}
        pos == GroupSize({p \in df : p.sentiment > TrendPositiveAbove})
        neg == GroupSize({p \in df : p.sentiment < TrendNegativeBelow})
    IN  IF df = {} THEN <<>>
        ELSE [sentiment_distribution |->
                [c \in cats |->
                    Cardinality({p \in df :
                                    sentiment_category(p.sentiment) = c})],
              top_subreddits |->
                ToDict(HeadOf(value_counts(df, "subreddit"), HeadRows)),
              top_redditors |->
                ToDict(HeadOf(value_counts(df, "author"), HeadRows)),
              trend |-> Concat(pos, neg)]

\* ------------------------------------------------- POST /start_process
\* (variant: the phrase test placed after the reset of the globals)
StartRejectAfterReset(r) ==
    /\ NextRequest(r)
    /\ \E raw \in StartPhrases : Strip(raw) = <<>>
    /\ PROGRESS' = 0
    /\ PROCESSING_DONE' = FALSE
    /\ pc' = [pc EXCEPT ![r] = "rejected400"]
    /\ UNCHANGED <<store, TOTAL_POSTS, phrase, found, written, col, results, aux>>

\* empty or blank search_phrase: 400
StartRejectPhrase(r) ==
    /\ NextRequest(r)
    /\ \E raw \in StartPhrases : Strip(raw) = <<>>
    /\ pc' = [pc EXCEPT ![r] = "rejected400"]
    /\ UNCHANGED <<store, globals, phrase, found, written, col, results, aux>>

\* delete every comment row and every post row, commit
StartClear(r) ==
    /\ NextRequest(r)
    /\ \E raw \in StartPhrases :
          /\ Strip(raw) # <<>>
          /\ phrase' = [phrase EXCEPT ![r] = Strip(raw)]
    /\ comments' = {}
    /\ posts' = {}
    /\ pc' = [pc EXCEPT ![r] = "cleared"]
    /\ UNCHANGED <<globals, found, written, col, results, aux>>

\* the clear raises: rollback, 500
StartClearFails(r) ==
    /\ NextRequest(r)
    /\ \E raw \in StartPhrases : Strip(raw) # <<>>
    /\ pc' = [pc EXCEPT ![r] = "rejected500"]
    /\ UNCHANGED <<store, globals, phrase, found, written, col, results, aux>>

\* PROGRESS = 0
RouteResetProgress(r) ==
    /\ pc[r] = "cleared"
    /\ PROGRESS' = 0
    /\ pc' = [pc EXCEPT ![r] = "routeReset"]
    /\ UNCHANGED <<store, PROCESSING_DONE, TOTAL_POSTS, phrase, found, written,
                   col, results, aux>>

\* PROCESSING_DONE = False; start the coordinator thread
RouteSpawn(r) ==
    /\ pc[r] = "routeReset"
    /\ PROCESSING_DONE' = FALSE
    /\ pc' = [pc EXCEPT ![r] = "started"]
    /\ UNCHANGED <<store, PROGRESS, TOTAL_POSTS, phrase, found, written, col,
                   results, aux>>

\* ------------------------------------------------ fetch_and_process_data
CoordResetProgress(r) ==
    /\ pc[r] = "started"
    /\ PROGRESS' = 0
    /\ pc' = [pc EXCEPT ![r] = "coordReset"]
    /\ UNCHANGED <<store, PROCESSING_DONE, TOTAL_POSTS, phrase, found, written,
                   col, results, aux>>

CoordResetDone(r) ==
    /\ pc[r] = "coordReset"
    /\ PROCESSING_DONE' = FALSE
    /\ pc' = [pc EXCEPT ![r] = "fetch"]
    /\ UNCHANGED <<store, PROGRESS, TOTAL_POSTS, phrase, found, written, col,
                   results, aux>>

\* (variant: TOTAL_POSTS not assigned)
CoordFetchKeepsTotal(r) ==
    /\ pc[r] = "fetch"
    /\ \E res \in SearchResults :
          /\ Len(res) + Held <= MaxLive
          /\ found' = [found EXCEPT ![r] = res]
    /\ pc' = [pc EXCEPT ![r] = "loop"]
    /\ UNCHANGED <<store, globals, phrase, written, col, results, aux>>

\* the search returns a listing; TOTAL_POSTS = len(posts)
CoordFetch(r) ==
    /\ pc[r] = "fetch"
    /\ \E res \in SearchResults :
          /\ Len(res) + Held <= MaxLive
          /\ found' = [found EXCEPT ![r] = res]
          /\ TOTAL_POSTS' = Len(res)
    /\ pc' = [pc EXCEPT ![r] = "loop"]
    /\ UNCHANGED <<store, PROGRESS, PROCESSING_DONE, phrase, written, col,
                   results, aux>>

\* the search raises: log and return
CoordFetchFails(r) ==
    /\ pc[r] = "fetch"
    /\ pc' = [pc EXCEPT ![r] = "fetchFailed"]
    /\ phrase' = [phrase EXCEPT ![r] = <<>>]
    /\ UNCHANGED <<store, globals, found, written, col, results, aux>>

\* a listing entry that fails `if post and post.id`: nothing happens
CoordSkip(r) ==
    /\ pc[r] = "loop"
    /\ Len(written[r]) < Len(found[r])
    /\ found[r][Len(written[r]) + 1] = NoId
    /\ written' = [written EXCEPT ![r] = Append(@, "skip")]
    /\ UNCHANGED <<store, globals, pc, phrase, found, col, results, aux>>

\* (variant: the row merged but its commit left for later)
CoordWriteUncommitted(r) ==
    /\ pc[r] = "loop"
    /\ Len(written[r]) < Len(found[r])
    /\ found[r][Len(written[r]) + 1] # NoId
    /\ written' = [written EXCEPT ![r] = Append(@, "ok")]
    /\ pc' = [pc EXCEPT ![r] = "dispatch"]
    /\ UNCHANGED <<store, globals, phrase, found, col, results, aux>>

\* db.session.merge(rp); db.session.commit()
CoordWrite(r) ==
    /\ pc[r] = "loop"
    /\ Len(written[r]) < Len(found[r])
    /\ LET id == found[r][Len(written[r]) + 1] IN
          /\ id # NoId
          /\ posts' = MergePost(posts, PostRow(id, phrase[r]))
    /\ written' = [written EXCEPT ![r] = Append(@, "ok")]
    /\ pc' = [pc EXCEPT ![r] = "dispatch"]
    /\ UNCHANGED <<comments, globals, phrase, found, col, results, aux>>

\* (variant: the write error not caught, it ends the coordinator)
CoordWriteAborts(r) ==
    /\ pc[r] = "loop"
    /\ Len(written[r]) < Len(found[r])
    /\ found[r][Len(written[r]) + 1] # NoId
    /\ written' = [written EXCEPT ![r] = Append(@, "err")]
    /\ pc' = [pc EXCEPT ![r] = "crashed"]
    /\ UNCHANGED <<store, globals, phrase, found, col, results, aux>>

\* the merge or the commit raises: db.session.rollback()
CoordWriteFails(r) ==
    /\ pc[r] = "loop"
    /\ Len(written[r]) < Len(found[r])
    /\ found[r][Len(written[r]) + 1] # NoId
    /\ written' = [written EXCEPT ![r] = Append(@, "err")]
    /\ pc' = [pc EXCEPT ![r] = "dispatch"]
    /\ UNCHANGED <<store, globals, phrase, found, col, results, aux>>

\* (variant: no thread started after a failed write)
CoordDispatchSkipsFailed(r) ==
    /\ pc[r] = "dispatch"
    /\ col' = [col EXCEPT ![r][Len(written[r])] =
                  IF written[r][Len(written[r])] = "err" THEN @
                  ELSE [pc |-> "guard", post |-> found[r][Len(written[r])],
                        k |-> 0, pending |-> {}]]
    /\ TOTAL_POSTS # 0
    /\ PROGRESS' = Percent(Processed(r), TOTAL_POSTS)
    /\ pc' = [pc EXCEPT ![r] = "loop"]
    /\ UNCHANGED <<store, PROCESSING_DONE, TOTAL_POSTS, phrase, found, written,
                   results, aux>>

\* t.start(); processed += 1; PROGRESS = int((processed / TOTAL_POSTS) * 100)
\* (a ZeroDivisionError ends the coordinator thread)
CoordDispatch(r) ==
    /\ pc[r] = "dispatch"
    /\ col' = [col EXCEPT ![r][Len(written[r])] =
                  [pc |-> "guard", post |-> found[r][Len(written[r])],
                   k |-> 0, pending |-> {}]]
    /\ IF TOTAL_POSTS = 0
       THEN /\ pc' = [pc EXCEPT ![r] = "crashed"]
            /\ phrase' = [phrase EXCEPT ![r] = <<>>]
            /\ found' = [found EXCEPT ![r] = <<>>]
            /\ written' = [written EXCEPT ![r] = <<>>]
            /\ UNCHANGED PROGRESS
       ELSE /\ PROGRESS' = Percent(Processed(r), TOTAL_POSTS)
            /\ pc' = [pc EXCEPT ![r] = "loop"]
            /\ UNCHANGED <<phrase, found, written>>
    /\ UNCHANGED <<store, PROCESSING_DONE, TOTAL_POSTS, results, aux>>

\* (variant: the join loop left out)
CoordJoinNoWait(r) ==
    /\ pc[r] = "loop"
    /\ Len(written[r]) = Len(found[r])
    /\ PROGRESS' = 100
    /\ pc' = [pc EXCEPT ![r] = "finish"]
    /\ UNCHANGED <<store, PROCESSING_DONE, TOTAL_POSTS, phrase, found, written,
                   col, results, aux>>

\* for t in comment_threads: t.join(); PROGRESS = 100
CoordJoin(r) ==
    /\ pc[r] = "loop"
    /\ Len(written[r]) = Len(found[r])
    /\ \A i \in Slots : col[r][i].pc \in Terminated \cup {"none"}
    /\ PROGRESS' = 100
    /\ pc' = [pc EXCEPT ![r] = "finish"]
    /\ UNCHANGED <<store, PROCESSING_DONE, TOTAL_POSTS, phrase, found, written,
                   col, results, aux>>

\* PROCESSING_DONE = True; the coordinator returns
CoordFinish(r) ==
    /\ pc[r] = "finish"
    /\ PROCESSING_DONE' = TRUE
    /\ pc' = [pc EXCEPT ![r] = "done"]
    /\ phrase' = [phrase EXCEPT ![r] = <<>>]
    /\ found' = [found EXCEPT ![r] = <<>>]
    /\ written' = [written EXCEPT ![r] = <<>>]
    /\ col' = [col EXCEPT ![r] = [i \in Slots |-> Reap(col[r][i])]]
    /\ UNCHANGED <<store, PROGRESS, TOTAL_POSTS, results, aux>>

\* ------------------------------------------------------- process_comments
\* (variant: the initial guard only logs, the collector goes on)
CollectGuardWarns(r, i) ==
    /\ col[r][i].pc = "guard"
    /\ col' = [col EXCEPT ![r][i].pc = "expand"]
    /\ UNCHANGED <<store, globals, pc, phrase, found, written, results, aux>>

\* the initial guard: parent = session.query(RedditPost).get(post.id)
CollectGuard(r, i) ==
    /\ col[r][i].pc = "guard"
    /\ col' = [col EXCEPT ![r][i].pc =
                  IF ParentExists(col[r][i].post) THEN "expand" ELSE "skipped"]
    /\ UNCHANGED <<store, globals, pc, phrase, found, written, results, aux>>

\* post.comments.replace_more(limit=None) and .list()
CollectExpand(r, i) ==
    /\ col[r][i].pc = "expand"
    /\ col' = [col EXCEPT ![r][i].pc = "loop"]
    /\ UNCHANGED <<store, globals, pc, phrase, found, written, results, aux>>

\* (variant: the comments fetched before the failure are committed)
CollectExpandFailsCommits(r, i) ==
    /\ col[r][i].pc = "expand"
    /\ comments' = MergeComments(comments,
                      {CommentRow(c, col[r][i].post) :
                          c \in Range(CommentTree(col[r][i].post))})
    /\ col' = [col EXCEPT ![r][i].pc = "failed"]
    /\ UNCHANGED <<posts, globals, pc, phrase, found, written, results, aux>>

\* the expansion raises: session.rollback()
CollectExpandFails(r, i) ==
    /\ col[r][i].pc = "expand"
    /\ col' = [col EXCEPT ![r][i].pc = "failed"]
    /\ UNCHANGED <<store, globals, pc, phrase, found, written, results, aux>>

\* one comment: re-check the parent, then session.merge(rc)
CollectChild(r, i) ==
    /\ col[r][i].pc = "loop"
    /\ col[r][i].k < Len(CommentTree(col[r][i].post))
    /\ LET c == CommentTree(col[r][i].post)[col[r][i].k + 1] IN
          col' = [col EXCEPT ![r][i].k = @ + 1,
                             ![r][i].pending =
                                 IF ParentExists(col[r][i].post)
                                 THEN @ \cup {c} ELSE @]
    /\ UNCHANGED <<store, globals, pc, phrase, found, written, results, aux>>

\* building or merging one comment raises: logged, next comment
CollectChildFails(r, i) ==
    /\ col[r][i].pc = "loop"
    /\ col[r][i].k < Len(CommentTree(col[r][i].post))
    /\ col' = [col EXCEPT ![r][i].k = @ + 1]
    /\ UNCHANGED <<store, globals, pc, phrase, found, written, results, aux>>

\* session.commit() after the last comment
CollectCommit(r, i) ==
    /\ col[r][i].pc = "loop"
    /\ col[r][i].k = Len(CommentTree(col[r][i].post))
    /\ comments' = MergeComments(comments,
                      {CommentRow(c, col[r][i].post) : c \in col[r][i].pending})
    /\ col' = [col EXCEPT ![r][i].pc = "committed", ![r][i].pending = {}]
    /\ UNCHANGED <<posts, globals, pc, phrase, found, written, results, aux>>

\* the commit raises: session.rollback()
CollectCommitFails(r, i) ==
    /\ col[r][i].pc = "loop"
    /\ col[r][i].k = Len(CommentTree(col[r][i].post))
    /\ col' = [col EXCEPT ![r][i].pc = "rolledback", ![r][i].pending = {}]
    /\ UNCHANGED <<store, globals, pc, phrase, found, written, results, aux>>

\* ---------------------------------------------------------- GET /results
\* blank phrase: 400
ResultsRejectPhrase ==
    /\ gpc = "idle"
    /\ \E raw \in ResultPhrases : Strip(raw) = <<>>
    /\ resp' = [status |-> 400, error |-> "search_phrase parameter is required",
                body |-> <<>>]
    /\ UNCHANGED <<store, globals, pc, phrase, found, written, col, gpc, gphrase, aux>>

\* if not PROCESSING_DONE: 400
ResultsNotComplete ==
    /\ gpc = "idle"
    /\ \E raw \in ResultPhrases : Strip(raw) # <<>>
    /\ ~PROCESSING_DONE
    /\ resp' = [status |-> 400, error |-> "Processing not complete",
                body |-> <<>>]
    /\ UNCHANGED <<store, globals, pc, phrase, found, written, col, gpc, gphrase, aux>>

\* (variant: the PROCESSING_DONE test left out)
ResultsAcceptUnchecked ==
    /\ gpc = "idle"
    /\ \E raw \in ResultPhrases :
          /\ Strip(raw) # <<>>
          /\ gphrase' = Strip(raw)
    /\ gpc' = "analyze"
    /\ resp' = NoResponse
    /\ UNCHANGED <<store, globals, pc, phrase, found, written, col, aux>>

\* the checks pass: analyze_data(phrase) is called next
ResultsAccept ==
    /\ gpc = "idle"
    /\ \E raw \in ResultPhrases :
          /\ Strip(raw) # <<>>
          /\ gphrase' = Strip(raw)
    /\ PROCESSING_DONE
    /\ gpc' = "analyze"
    /\ resp' = NoResponse
    /\ UNCHANGED <<store, globals, pc, phrase, found, written, col, aux>>

\* analysis = analyze_data(phrase); return jsonify(analysis)
ResultsAnalyze ==
    /\ gpc = "analyze"
    /\ resp' = [status |-> 200, error |-> "", body |-> analyze_data(gphrase)]
    /\ gpc' = "idle"
    /\ gphrase' = <<>>
    /\ UNCHANGED <<store, globals, pc, phrase, found, written, col, aux>>

\* ------------------------------------------------------- specifications
Start(r) == StartRejectPhrase(r) \/ StartClear(r) \/ StartClearFails(r)

Route(r) == RouteResetProgress(r) \/ RouteSpawn(r)

Coordinator(r) ==
    \/ CoordResetProgress(r) \/ CoordResetDone(r)
    \/ CoordFetch(r) \/ CoordFetchFails(r)
    \/ CoordSkip(r) \/ CoordWrite(r) \/ CoordWriteFails(r)
    \/ CoordDispatch(r) \/ CoordJoin(r) \/ CoordFinish(r)

Collector(r, i) ==
    \/ CollectGuard(r, i)
    \/ CollectExpand(r, i) \/ CollectExpandFails(r, i)
    \/ CollectChild(r, i) \/ CollectChildFails(r, i)
    \/ CollectCommit(r, i) \/ CollectCommitFails(r, i)

Results ==
    ResultsRejectPhrase \/ ResultsNotComplete \/ ResultsAccept \/ ResultsAnalyze

\* the threads that carry a run: route handler, coordinator, collectors
Pipeline ==
    \/ \E r \in Requests : Route(r) \/ Coordinator(r)
    \/ \E r \in Requests, i \in Slots : Collector(r, i)

Threads == Pipeline \/ Results

\* every request is served as it arrives, also while a run is in flight
Next == (\E r \in Requests : Start(r)) \/ Threads

Spec == Init /\ [][Next]_vars

\* no start request arrives while an earlier one is being served
Quiescent == \A r \in Requests : pc[r] \in Settled

NextSingle == (Quiescent /\ \E r \in Requests : Start(r)) \/ Threads

\* the threads of a run are scheduled and every call they make returns
\* (with a value or an exception): while some thread of a run can take a
\* step, one of them eventually does.  Requests of clients are not forced.
Fairness == WF_vars(Pipeline)

SpecSingle == Init /\ [][NextSingle]_vars /\ Fairness


\* ------------------------------------------------- datascraper.py: data
\* the listings fetch_reddit_data walks, in the order of its dictionary
Sources == <<"SEARCH", "HOT", "NEW", "RISING", "TOP">>
ScriptSources == {Sources[i] : i \in 1..Min(MaxSources, Len(Sources))}

\* the phrase the script is run with, the phrases the word ranking is asked
\* for, and the phrases of the backend's runs
ScriptPhrases == {<<"a">>}
WordPhrases == {<<"a">>, <<"b">>}
RunPhrases == {<<"a">>, <<"b">>}

\* post.title, post.selftext and comment.body as word_tokenize splits them
Title(p) ==
    CASE p = "p1" -> <<"Electric", "cars", "are", "great", "electric", "cars">>
      [] p = "p2" -> <<"The", "new", "battery", "pack", "range", "charging",
                       "network", "price", "tax", "credit", "policy", "market",
                       "sales", "factory", "lithium", "supply", "chain",
                       "software", "update", "recall", "safety", "rating",
                       "2024", "!">>
      [] OTHER -> <<>>

Selftext(p) ==
    CASE p = "p2" -> <<"Battery", "price", "is", "the", "new", "range">>
      [] OTHER -> <<>>

Body(c) ==
    CASE c = "c1" -> <<"I", "love", "electric", "cars", "!">>
      [] c = "c2" -> <<>>
      [] c = "c3" -> <<"price", "price", "battery", "ev2">>
      [] OTHER -> <<>>

\* str.lower on a token: the tokens of the texts above that change
Lower(w) ==
    CASE w = "Electric" -> "electric"
      [] w = "The" -> "the"
      [] w = "Battery" -> "battery"
      [] w = "I" -> "i"
      [] OTHER -> w

\* str.isalpha on a token: false for the tokens with a digit or a mark
IsAlpha(w) == w \notin {"2024", "!", "ev2"}

\* stopwords.words("english"), the entries that occur in the texts
stop_words == {"are", "the", "is", "i"}

\* ------------------------------------------------ datascraper.py: tables
SPostRow(id, ph, src) ==
    [id |-> id, title |-> Title(id), content |-> Selftext(id),
     search_phrase |-> ph, source |-> src]

SCommentRow(id, post, ph) ==
    [id |-> id, post_id |-> post, content |-> Body(id), search_phrase |-> ph]

\* (variant: INSERT OR REPLACE, the new row put in the place of the old)
InsertOrReplace(rows, row) ==
    IF \E i \in 1..Len(rows) : rows[i].id = row.id
    THEN [i \in 1..Len(rows) |-> IF rows[i].id = row.id THEN row ELSE rows[i]]
    ELSE Append(rows, row)

\* INSERT OR IGNORE: a row whose id is in the table already is dropped.
\* The tables of the script are sequences, in rowid order
InsertOrIgnore(rows, row) ==
    IF \E i \in 1..Len(rows) : rows[i].id = row.id THEN rows
    ELSE Append(rows, row)

\* the comment loop of one post, the first n comments of the tree
RECURSIVE InsertComments(_, _, _, _)
InsertComments(rows, post, ph, n) ==
    IF n = 0 THEN rows
    ELSE InsertOrIgnore(InsertComments(rows, post, ph, n - 1),
                        SCommentRow(CommentTree(post)[n], post, ph))

\* ------------------------------------- datascraper.py: fetch_reddit_data
\* one post of one listing: the post row, then every comment of its tree
ScraperPost(id, ph, src) ==
    /\ sposts' = InsertOrIgnore(sposts, SPostRow(id, ph, src))
    /\ scomments' = InsertComments(scomments, id, ph, Len(CommentTree(id)))
    /\ call' = [fn |-> "insert_or_ignore", arg |-> SPostRow(id, ph, src),
                ret |-> <<>>]
    /\ UNCHANGED backend

\* the comments of the post raise after n of them: the error is printed and
\* the listing goes on, with what was inserted so far
ScraperPostFails(id, ph, src) ==
    /\ \E n \in 0..(Len(CommentTree(id)) - 1) :
          scomments' = InsertComments(scomments, id, ph, n)
    /\ sposts' = InsertOrIgnore(sposts, SPostRow(id, ph, src))
    /\ call' = [fn |-> "insert_or_ignore", arg |-> SPostRow(id, ph, src),
                ret |-> <<>>]
    /\ UNCHANGED backend

\* ---------------------------------- datascraper.py: generate_word_matrix
RECURSIVE Flatten(_)
Flatten(ss) == IF ss = <<>> THEN <<>> ELSE Head(ss) \o Flatten(Tail(ss))

\* text_data before .lower(): title + " " + content of the post rows of the
\* phrase that have either, then the content of its comment rows that have
\* one, joined in rowid order
TextData(ph) ==
    LET prow(r) == r.search_phrase = ph /\ (r.title # <<>> \/ r.content # <<>>)
        crow(r) == r.search_phrase = ph /\ r.content # <<>>
        ps == SelectSeq(sposts, prow)
        cs == SelectSeq(scomments, crow)
    IN  Flatten([i \in 1..Len(ps) |-> ps[i].title \o ps[i].content])
            \o Flatten([i \in 1..Len(cs) |-> cs[i].content])

\* (variant: the text tokenised as it is stored, .lower() left out)
AsStored(ws) == ws

\* .lower() on the text, token by token
LowerAll(ws) == [i \in 1..Len(ws) |-> Lower(ws[i])]

\* [word for word in tokens if word.isalpha() and word not in stop_words]
FilterWords(ws) ==
    LET keep(w) == IsAlpha(w) /\ w \notin stop_words IN SelectSeq(ws, keep)

\* Counter(words): every key with its count and the place of its first
\* occurrence, which is the order the Counter keeps its keys in
Counter(ws) ==
    LET first == {i \in 1..Len(ws) : \A j \in 1..(i - 1) : ws[j] # ws[i]}
    IN  {<<ws[i], Cardinality({j \in 1..Len(ws) : ws[j] = ws[i]}), i>> :
            i \in first}

\* Counter(words).most_common(n) as (word, count) pairs: the items sorted
\* by count, largest first, ties in the order of the Counter, cut at n
most_common(ws, n) ==
    LET items == Counter(ws)
        before(it) == {o \in items :
                          o[2] > it[2] \/ (o[2] = it[2] /\ o[3] < it[3])}
        at(k) == CHOOSE it \in items : Cardinality(before(it)) = k - 1
    IN  [k \in 1..Min(n, Cardinality(items)) |-> <<at(k)[1], at(k)[2]>>]

\* top_words of generate_word_matrix; nothing when there is no text
top_words(ph) ==
    LET text_data == LowerAll(TextData(ph))
    IN  IF text_data = <<>> THEN <<>>
        ELSE most_common(FilterWords(text_data), TopWords)

generate_word_matrix(ph) ==
    /\ call' = [fn |-> "generate_word_matrix", arg |-> ph,
                ret |-> top_words(ph)]
    /\ UNCHANGED <<backend, script>>

\* ------------------------------------------ the parent write on its own
\* db.session.merge(rp); db.session.commit() for a listing entry, under any
\* phrase: the store as runs with different phrases leave it
MergeParent(id, ph) ==
    /\ posts' = MergePost(posts, PostRow(id, ph))
    /\ call' = [fn |-> "merge", arg |-> PostRow(id, ph), ret |-> <<>>]
    /\ UNCHANGED <<comments, globals, pc, phrase, found, written, col,
                   results, script>>

\* the write raises: rollback
MergeParentFails(id, ph) ==
    /\ call' = [fn |-> "merge_failed", arg |-> PostRow(id, ph), ret |-> <<>>]
    /\ UNCHANGED <<backend, script>>

\* the two kinds of parent write and the word ranking, in any order: the
\* script is run any number of times, the backend with any phrases
NextStore ==
    \/ \E id \in PostIds, ph \in RunPhrases :
          MergeParent(id, ph) \/ MergeParentFails(id, ph)
    \/ \E id \in PostIds, ph \in ScriptPhrases, src \in ScriptSources :
          ScraperPost(id, ph, src) \/ ScraperPostFails(id, ph, src)
    \/ \E ph \in WordPhrases : generate_word_matrix(ph)

SpecStore == Init /\ [][NextStore]_vars

\* ------------------------------------------ sentiment_category on its own
\* every compound score the analyser can return, in hundredths
Compounds == (-Unit)..Unit

\* df['sentiment'].apply(sentiment_category), one score at a time
Categorise(s) ==
    /\ call' = [fn |-> "sentiment_category", arg |-> s,
                ret |-> sentiment_category(s)]
    /\ UNCHANGED <<backend, script>>

NextCategory == \E s \in Compounds : Categorise(s)

SpecCategory == Init /\ [][NextCategory]_vars

\* ------------------------------------------------- the aggregator at rest
\* posts some run may have written under the other phrase
OtherRun == {"p1", "p3"}

\* the process after its runs: done is set, no thread is left, and the
\* store holds the rows the runs wrote, any part of the corpus
InitAgg ==
    /\ \E S \in SUBSET Range(Corpus) : \E T \in SUBSET (S \cap OtherRun) :
          /\ posts = {PostRow(id, <<"a">>) : id \in S \ T}
                        \cup {PostRow(id, <<"b">>) : id \in T}
          /\ TOTAL_POSTS = Cardinality(S \ T)
    /\ comments = {}
    /\ PROGRESS = 100
    /\ PROCESSING_DONE = TRUE
    /\ pc = [r \in Requests |-> "done"]
    /\ phrase = [r \in Requests |-> <<>>]
    /\ found = [r \in Requests |-> <<>>]
    /\ written = [r \in Requests |-> <<>>]
    /\ col = [r \in Requests |-> [i \in Slots |-> NoCollector]]
    /\ gpc = "idle"
    /\ gphrase = <<>>
    /\ resp = NoResponse
    /\ sposts = <<>>
    /\ scomments = <<>>
    /\ call = NoCall

NextAgg == ResultsRejectPhrase \/ ResultsAccept \/ ResultsAnalyze

SpecAgg == InitAgg /\ [][NextAgg]_vars

\* ---------------------------------------------------------- GET /progress
\* jsonify({"progress": PROGRESS, "done": PROCESSING_DONE}) loads the two
\* globals one after the other, without a lock: PROGRESS first (kept in arg)
GetProgressLoad ==
    /\ call' = [fn |-> "get_progress", arg |-> PROGRESS, ret |-> <<>>]
    /\ UNCHANGED <<backend, script>>

\* then PROCESSING_DONE, and the response is sent
GetProgressReturn ==
    /\ call.fn = "get_progress"
    /\ call.ret = <<>>
    /\ call' = [call EXCEPT !.ret = [progress |-> call.arg,
                                     done |-> PROCESSING_DONE]]
    /\ UNCHANGED <<backend, script>>

GetProgress == GetProgressLoad \/ GetProgressReturn

\* runs served one at a time, polled by status queries at any moment
NextStatus == NextSingle \/ GetProgress

SpecStatus == Init /\ [][NextStatus]_vars


\* ------------------------------------------- the clear, statement by statement
\* posts the store may hold before a clear, and the ones kept under the
\* other phrase
Stored == PostIds \cup {"p3"}

\* the store some earlier runs left: every comment row has its post row
\* (posts and comments are here what the request's session sees; call.arg
\* keeps the rows as last committed, which a rollback brings back)
InitClear ==
    /\ \E S \in SUBSET Stored : \E T \in SUBSET (S \cap OtherRun) :
       \E D \in SUBSET {DummyId} :
          /\ posts = {PostRow(id, <<"a">>) : id \in S \ T}
                        \cup {PostRow(id, <<"b">>) : id \in T}
                        \cup {PostRow(id, DummyPhrase) : id \in D}
          /\ comments \in SUBSET UNION {
                 {CommentRow(c, id) : c \in Range(CommentTree(id))} :
                     id \in S}
    /\ PROGRESS = 100
    /\ PROCESSING_DONE = TRUE
    /\ TOTAL_POSTS = 0
    /\ pc = [r \in Requests |-> "idle"]
    /\ phrase = [r \in Requests |-> <<>>]
    /\ found = [r \in Requests |-> <<>>]
    /\ written = [r \in Requests |-> <<>>]
    /\ col = [r \in Requests |-> [i \in Slots |-> NoCollector]]
    /\ gpc = "idle"
    /\ gphrase = <<>>
    /\ resp = NoResponse
    /\ sposts = <<>>
    /\ scomments = <<>>
    /\ call = NoCall

\* (variant: only the children of the posts of the request's phrase go)
DeleteCommentsOfPhrase(r) ==
    /\ NextRequest(r)
    /\ \E raw \in StartPhrases :
          /\ Strip(raw) # <<>>
          /\ phrase' = [phrase EXCEPT ![r] = Strip(raw)]
          /\ comments' = {c \in comments :
                            \A p \in posts :
                                p.id = c.post_id => p.search_phrase # Strip(raw)}
    /\ call' = [fn |-> "clear", arg |-> <<posts, comments>>, ret |-> <<>>]
    /\ pc' = [pc EXCEPT ![r] = "deletedComments"]
    /\ UNCHANGED <<posts, globals, found, written, col, results, script>>

\* db.session.query(RedditComment).delete()
DeleteComments(r) ==
    /\ NextRequest(r)
    /\ \E raw \in StartPhrases :
          /\ Strip(raw) # <<>>
          /\ phrase' = [phrase EXCEPT ![r] = Strip(raw)]
    /\ call' = [fn |-> "clear", arg |-> <<posts, comments>>, ret |-> <<>>]
    /\ comments' = {}
    /\ pc' = [pc EXCEPT ![r] = "deletedComments"]
    /\ UNCHANGED <<posts, globals, found, written, col, results, script>>

\* db.session.query(RedditPost).delete()
DeletePosts(r) ==
    /\ pc[r] = "deletedComments"
    /\ posts' = {}
    /\ pc' = [pc EXCEPT ![r] = "deletedPosts"]
    /\ UNCHANGED <<comments, globals, phrase, found, written, col, results,
                   aux>>

\* db.session.commit()
ClearCommit(r) ==
    /\ pc[r] = "deletedPosts"
    /\ call' = [call EXCEPT !.ret = <<posts, comments>>]
    /\ pc' = [pc EXCEPT ![r] = "cleared"]
    /\ UNCHANGED <<store, globals, phrase, found, written, col, results,
                   script>>

\* a statement of the clear raises: db.session.rollback(), 500
ClearRollback(r) ==
    /\ pc[r] \in {"deletedComments", "deletedPosts"}
    /\ posts' = call.arg[1]
    /\ comments' = call.arg[2]
    /\ pc' = [pc EXCEPT ![r] = "rejected500"]
    /\ UNCHANGED <<globals, phrase, found, written, col, results, aux>>

\* the requests are served one after the other: no transaction of a clear
\* is open
NoClearOpen ==
    \A r \in Requests : pc[r] \notin {"deletedComments", "deletedPosts"}

NextClear ==
    \E r \in Requests :
        \/ NoClearOpen /\ StartRejectPhrase(r)
        \/ NoClearOpen /\ StartClearFails(r)
        \/ NoClearOpen /\ DeleteComments(r)
        \/ DeletePosts(r)
        \/ ClearCommit(r)
        \/ ClearRollback(r)

SpecClear == InitClear /\ [][NextClear]_vars


\* ------------------------------------------------------------- properties
Rejected == {"rejected400", "rejected500"}
Running == {"guard", "expand", "loop"}
InLoop == {"loop", "dispatch"}

\* the latest start request served so far
Latest(r) == pc[r] # "idle" /\ \A q \in Requests : q > r => pc[q] = "idle"

\* C1: in a single run every committed comment row names a post row that is
\* in the store, and a parent whose write failed has no comment row
C1_ReferentialGuard ==
    /\ \A c \in comments : \E p \in posts : p.id = c.post_id
    /\ \A r \in Requests : \A i \in 1..Len(written[r]) :
          written[r][i] = "err" =>
              \A c \in comments : c.post_id # found[r][i]

C1_Witness ==
    \E r \in Requests : \E i \in 1..Len(written[r]) :
        /\ written[r][i] = "err"
        /\ CommentTree(found[r][i]) # <<>>
        /\ col[r][i].pc = "skipped"
        /\ comments # {}

\* C2: a collector never commits a comment whose owning post is not in the
\* store at the moment of the commit, also when a second start request
\* clears the store between the collector's re-check and its commit
C2_CommitSeesParent ==
    [][\A c \in comments' \ comments : \E p \in posts' : p.id = c.post_id]_vars

\* C3: a run whose search returns exactly L items, all with an id, has
\* total = L from the fetch on, leads to done = true, and sets done with
\* percent = 100 and total = L
FullListing(r) ==
    /\ pc[r] \in InLoop \cup {"finish"}
    /\ NoId \notin Range(found[r])

C3_TotalAndCompletion ==
    /\ [](\A r \in Requests : FullListing(r) => TOTAL_POSTS = Len(found[r]))
    /\ [][\A r \in Requests :
            (FullListing(r) /\ PROCESSING_DONE') =>
                (PROGRESS' = 100 /\ TOTAL_POSTS' = Len(found[r]))]_vars
    /\ (\E r \in Requests : FullListing(r)) ~> PROCESSING_DONE

C3_Witness ==
    /\ PROCESSING_DONE
    /\ PROGRESS = 100
    /\ TOTAL_POSTS = Cardinality(PostIds)
    /\ {p.id : p \in posts} = PostIds

\* C4: a run whose search raised has ended with total = 0 and done = true
C4_FetchFailureCompletes ==
    \A r \in Requests :
        (pc[r] = "fetchFailed" /\ Latest(r)) =>
            (PROCESSING_DONE /\ PROGRESS = 100 /\ TOTAL_POSTS = 0)

\* C5: in a single run, while done = true no collector is running and no
\* collector holds uncommitted comments
C5_DoneAfterJoin ==
    PROCESSING_DONE =>
        \A r \in Requests : \A i \in Slots :
            col[r][i].pc \notin Running /\ col[r][i].pending = {}

C5_Witness == PROCESSING_DONE /\ comments # {}

\* C6: in a single run the percent stays in 0..100, only the reset at the
\* start of a run lowers it, and after the k-th processed parent it is
\* floor(100 * k / total)
C6_PercentMonotone ==
    [][/\ PROGRESS' \in 0..100
       /\ PROGRESS' < PROGRESS =>
             \E r \in Requests : pc[r] = "cleared" /\ pc'[r] = "routeReset"
       /\ \A r \in Requests :
             (pc[r] = "dispatch" /\ pc'[r] = "loop") =>
                 PROGRESS' = (100 * Processed(r)) \div Len(found[r])]_vars

C6_Witness ==
    \E r \in Requests :
        pc[r] = "loop" /\ Processed(r) = 1 /\ Len(found[r]) = 2 /\ PROGRESS = 50

\* C7: a run with failed parent writes, failed child writes or failed
\* expansions still leads to done = true, and the parents written so far
\* stay in the store
HadFailure(r) ==
    \/ \E i \in 1..Len(written[r]) : written[r][i] = "err"
    \/ \E i \in Slots :
          \/ col[r][i].pc \in {"failed", "rolledback"}
          \/ col[r][i].pc = "loop" /\ col[r][i].k > Cardinality(col[r][i].pending)

C7_PartialFailureCompletes ==
    /\ [](\A r \in Requests : \A i \in 1..Len(written[r]) :
            written[r][i] = "ok" => \E p \in posts : p.id = found[r][i])
    /\ (\E r \in Requests : pc[r] \in InLoop /\ HadFailure(r)) ~> PROCESSING_DONE

C7_Witness ==
    \E r \in Requests :
        /\ pc[r] = "finish"
        /\ \E i \in 1..Len(written[r]) : written[r][i] = "err"
        /\ \E i \in 1..Len(written[r]) :
              written[r][i] = "ok" /\ col[r][i].pc = "failed"

\* C8 (as claimed): after a failed parent write no collector is dispatched
\* for that parent
C8_NoCollectorAfterFailedWrite ==
    \A r \in Requests : \A i \in 1..Len(written[r]) :
        written[r][i] = "err" => col[r][i].pc = "none"

\* C8 (amended): after a failed parent write the coordinator goes on, and
\* it dispatches a collector for that parent all the same; in a single run
\* that collector stops at its initial guard
C8_CollectorAfterFailedWrite ==
    \A r \in Requests : \A i \in 1..Len(written[r]) :
        written[r][i] = "err" =>
            /\ pc[r] \in InLoop \cup {"finish"}
            /\ \/ i = Len(written[r]) /\ pc[r] = "dispatch" /\ col[r][i].pc = "none"
               \/ col[r][i].pc \in {"guard", "skipped"}

C8_Witness ==
    \E r \in Requests :
        /\ Len(written[r]) = 2
        /\ written[r][1] = "err"
        /\ col[r][1].pc = "skipped"
        /\ written[r][2] = "ok"

\* C9: the aggregator is entered only from a request that found done =
\* true, a 200 answer comes only from the aggregator, and a request that
\* finds done = false is answered 400 without entering the aggregator
C9_ResultsGate ==
    [][/\ (gpc = "idle" /\ gpc' = "analyze") => PROCESSING_DONE
       /\ (resp'.status = 200 /\ resp' # resp) =>
             (gpc = "analyze" /\ resp'.body = analyze_data(gphrase))
       /\ (gpc = "idle" /\ ~PROCESSING_DONE /\ results' # results) =>
             (gpc' = "idle" /\ resp'.status = 400)]_vars

C9_Witness ==
    /\ resp.status = 200
    /\ resp.body # <<>>
    /\ PROCESSING_DONE

\* C10: a rejected start request leaves percent, done and total as they
\* were and never gets a coordinator or a collector; the rejection for an
\* empty phrase leaves the store as it was too
C10_RejectedStartFrame ==
    [][\A r \in Requests :
          /\ (pc[r] = "idle" /\ pc'[r] \in Rejected) =>
                /\ globals' = globals
                /\ pc'[r] = "rejected400" => store' = store
          /\ pc[r] \in Rejected =>
                /\ pc'[r] = pc[r]
                /\ \A i \in Slots : col'[r][i] = NoCollector]_vars

C10_Witness ==
    \E r \in Requests :
        /\ pc[r] \in Rejected
        /\ PROCESSING_DONE
        /\ PROGRESS = 100
        /\ posts # {}

\* -------------------------------------------------- the stores on their own
OnePerId(rows) == \A p, q \in rows : p.id = q.id => p = q

HasId(rows, id) == \E i \in 1..Len(rows) : rows[i].id = id

\* C11 (as claimed): both stores hold at most one row per id, and after a
\* parent write of either kind the store holds the row as it was written
\* last, replacing what was stored under that id
C11_UpsertReplaces ==
    /\ OnePerId(posts)
    /\ OnePerId(Range(sposts)) /\ Cardinality(Range(sposts)) = Len(sposts)
    /\ call.fn = "merge" => call.arg \in posts
    /\ call.fn = "insert_or_ignore" => call.arg \in Range(sposts)

\* C11 (amended): both stores hold at most one row per id; the backend's
\* merge leaves the row as written last (the same row twice leaves it as it
\* is, other fields replace it); the script's INSERT OR IGNORE stores the
\* row when the id is new and leaves the table as it is when the id is
\* there, whatever the fields
C11_UpsertOnePerId ==
    /\ [](/\ OnePerId(posts)
          /\ OnePerId(Range(sposts)) /\ Cardinality(Range(sposts)) = Len(sposts)
          /\ call.fn = "merge" => call.arg \in posts)
    /\ [][call'.fn = "insert_or_ignore" =>
            IF HasId(sposts, call'.arg.id) THEN sposts' = sposts
            ELSE sposts' = Append(sposts, call'.arg)]_vars

\* a post the script met again, under another phrase or listing, and a
\* post the backend wrote again under another phrase
C11_Witness ==
    /\ call.fn = "insert_or_ignore"
    /\ HasId(sposts, call.arg.id)
    /\ call.arg \notin Range(sposts)
    /\ \E p \in posts : p.id \in PostIds /\ p.search_phrase = <<"b">>
    /\ \E p \in posts : p.id \in PostIds /\ p.search_phrase = <<"a">>

\* C12: every score in [-1, 1] gets exactly one of the five labels: above
\* 0.8 Very Positive, above 0.4 up to 0.8 Positive, from -0.4 to 0.4
\* Neutral, from -0.8 to below -0.4 Negative, below -0.8 Very Negative
C12_CategoryPartition ==
    call.fn = "sentiment_category" =>
        LET s == call.arg
            c == call.ret
        IN  /\ c \in {"Very Positive", "Positive", "Neutral", "Negative",
                      "Very Negative"}
            /\ (c = "Very Positive") = (s > 80)
            /\ (c = "Positive") = (40 < s /\ s <= 80)
            /\ (c = "Neutral") = (-40 <= s /\ s <= 40)
            /\ (c = "Negative") = (-80 <= s /\ s < -40)
            /\ (c = "Very Negative") = (s < -80)

\* the boundary 0.8 has been classified, as Positive
C12_Witness ==
    call = [fn |-> "sentiment_category", arg |-> 80, ret |-> "Positive"]

\* ------------------------------------------------------- the aggregator
\* the step in which analyze_data returns and the response is sent
Analysed == gpc = "analyze" /\ gpc' = "idle"

\* the rows of the phrase being analysed
Asked == {p \in posts : p.search_phrase = gphrase}

\* C13: for a phrase without a post row the aggregator answers with the
\* empty result, without raising; when it counts, it counts the rows of
\* the requested phrase and no other
C13_EmptyAndFiltered ==
    [][Analysed =>
        /\ resp'.status = 200
        /\ Asked = {} => resp'.body = <<>>
        /\ Asked # {} =>
              LET dist == resp'.body.sentiment_distribution
              IN  /\ DOMAIN dist = {sentiment_category(p.sentiment) : p \in Asked}
                  /\ \A c \in DOMAIN dist :
                        dist[c] = Cardinality({p \in Asked :
                                     sentiment_category(p.sentiment) = c})]_vars

\* the empty result, answered over a store that holds rows of another phrase
C13_Witness ==
    /\ resp.status = 200
    /\ resp.body = <<>>
    /\ \E p \in posts : p.search_phrase = <<"a">>

\* C14: the trend gives for each date the number of rows of that date with
\* sentiment above 0.4 and the number with sentiment below -0.4; a date is
\* there exactly when one of the two is not zero, the other side being 0
\* when it has no row
C14_Trend ==
    [][(Analysed /\ Asked # {}) =>
        LET trend == resp'.body.trend
            day(p) == p.timestamp \div 86400
            positive(d) == Cardinality({p \in Asked :
                                           day(p) = d /\ p.sentiment > 40})
            negative(d) == Cardinality({p \in Asked :
                                           day(p) = d /\ p.sentiment < -40})
        IN  /\ DOMAIN trend = {d \in {day(p) : p \in Asked} :
                                  positive(d) > 0 \/ negative(d) > 0}
            /\ \A d \in DOMAIN trend :
                  /\ trend[d].Positive = positive(d)
                  /\ trend[d].Negative = negative(d)]_vars

\* a trend with a date of both sides, a date with positives only, a date
\* with negatives only, over rows of which one date has neither
C14_Witness ==
    /\ resp.status = 200
    /\ resp.body # <<>>
    /\ \E d \in DOMAIN resp.body.trend :
          resp.body.trend[d].Positive > 0 /\ resp.body.trend[d].Negative > 0
    /\ \E d \in DOMAIN resp.body.trend :
          resp.body.trend[d].Positive > 0 /\ resp.body.trend[d].Negative = 0
    /\ \E d \in DOMAIN resp.body.trend :
          resp.body.trend[d].Positive = 0 /\ resp.body.trend[d].Negative > 0
    /\ \E p \in posts :
          /\ p.search_phrase = <<"a">>
          /\ (p.timestamp \div 86400) \notin DOMAIN resp.body.trend

\* C15: top_subreddits and top_redditors each hold five values, or all of
\* them when there are fewer, each with its exact count among the rows of
\* the phrase, and no value left out has a larger count than one kept
TopFive(top, column) ==
    LET values == {p[column] : p \in Asked}
        count(v) == Cardinality({p \in Asked : p[column] = v})
    IN  /\ DOMAIN top \subseteq values
        /\ Cardinality(DOMAIN top) = Min(5, Cardinality(values))
        /\ \A v \in DOMAIN top : top[v] = count(v)
        /\ \A v \in DOMAIN top : \A w \in values \ DOMAIN top :
              count(w) <= count(v)

C15_TopFive ==
    [][(Analysed /\ Asked # {}) =>
        /\ TopFive(resp'.body.top_subreddits, "subreddit")
        /\ TopFive(resp'.body.top_redditors, "author")]_vars

\* six subreddits and six authors in the rows, five of each answered, the
\* subreddit met last in the rows kept for its count
C15_Witness ==
    /\ resp.status = 200
    /\ resp.body # <<>>
    /\ Cardinality(DOMAIN resp.body.top_subreddits) = 5
    /\ Cardinality(DOMAIN resp.body.top_redditors) = 5
    /\ "cars" \in DOMAIN resp.body.top_subreddits
    /\ "green" \notin DOMAIN resp.body.top_subreddits
    /\ \E p \in posts : p.search_phrase = <<"a">> /\ p.subreddit = "green"
    /\ Cardinality({p.author : p \in {q \in posts : q.search_phrase = <<"a">>}})
          = 6

\* ----------------------------------------------------- the word ranking
\* the places of the tokens in the posts and in the comments of a phrase
PostTokens(ph) ==
    UNION {UNION {{<<k, f, i>> : i \in 1..Len(sposts[k][f])} :
                     f \in {"title", "content"}} :
              k \in {j \in 1..Len(sposts) : sposts[j].search_phrase = ph}}

CommentTokens(ph) ==
    UNION {{<<k, i>> : i \in 1..Len(scomments[k].content)} :
              k \in {j \in 1..Len(scomments) : scomments[j].search_phrase = ph}}

\* occurrences of the lower-case token w in the posts / the comments
InPosts(w, ph) ==
    Cardinality({t \in PostTokens(ph) : Lower(sposts[t[1]][t[2]][t[3]]) = w})

InComments(w, ph) ==
    Cardinality({t \in CommentTokens(ph) :
                    Lower(scomments[t[1]].content[t[2]]) = w})

Alphabetic(S) == {w \in S : IsAlpha(w) /\ w \notin stop_words}

PostWords(ph) ==
    Alphabetic({Lower(sposts[t[1]][t[2]][t[3]]) : t \in PostTokens(ph)})

CommentWords(ph) ==
    Alphabetic({Lower(scomments[t[1]].content[t[2]]) : t \in CommentTokens(ph)})

\* ranked is the list of the n most frequent of the words, as pairs (word,
\* count), largest count first, count(w) being the exact count of w
Ranking(ranked, words, count(_), n) ==
    LET kept == {ranked[i][1] : i \in 1..Len(ranked)}
    IN  /\ Len(ranked) = Min(n, Cardinality(words))
        /\ kept \subseteq words
        /\ Cardinality(kept) = Len(ranked)
        /\ \A i \in 1..Len(ranked) : ranked[i][2] = count(ranked[i][1])
        /\ \A i, j \in 1..Len(ranked) : i < j => ranked[i][2] >= ranked[j][2]
        /\ \A w \in words \ kept : \A i \in 1..Len(ranked) :
              count(w) <= ranked[i][2]

ExampleRanking == <<<<"electric", 2>>, <<"cars", 2>>, <<"great", 1>>>>

\* the table holds the corpus 'Electric cars are great electric cars' and
\* nothing else under the phrase
ExampleCorpus(ph) ==
    /\ \E k \in 1..Len(sposts) : sposts[k].search_phrase = ph
    /\ \A k \in 1..Len(sposts) :
          sposts[k].search_phrase = ph => sposts[k].id = "p1"
    /\ \A k \in 1..Len(scomments) : scomments[k].search_phrase # ph

C17_CommitBeforeCollector ==
    \A r \in Requests : \A i \in 1..Len(written[r]) :
        written[r][i] = "ok" =>
            /\ col[r][i].pc \in Running =>
                  \E p \in posts : p.id = found[r][i]
            /\ (pc[r] = "dispatch" /\ i = Len(written[r])) =>
                  \E p \in posts : p.id = found[r][i]
            /\ col[r][i].pc # "skipped"

\* a collector past its guard, its post written by the coordinator
C17_Witness ==
    \E r \in Requests : \E i \in 1..Len(written[r]) :
        /\ written[r][i] = "ok"
        /\ col[r][i].pc = "expand"
        /\ col[r][i].post = found[r][i]

\* C19: a collector that finds no row for its post at its initial guard
\* returns there: it does not fetch the comment tree and writes no comment
\* row; the tree is fetched only by a collector that found the row, and
\* comment rows are written only by a collector that has fetched the tree
C19_GuardReturns ==
    [][\A r \in Requests : \A i \in Slots :
          /\ (/\ col[r][i].pc = "guard"
              /\ col'[r][i] # col[r][i]
              /\ \A p \in posts : p.id # col[r][i].post)
                 => /\ col'[r][i].pc = "skipped"
                    /\ comments' = comments
          /\ (col[r][i].pc = "skipped" /\ col'[r][i] # col[r][i])
                 => /\ col'[r][i].pc \in {"none", "guard"}
                    /\ comments' = comments
          /\ (col'[r][i].pc = "expand" /\ col[r][i].pc # "expand")
                 => /\ col[r][i].pc = "guard"
                    /\ \E p \in posts : p.id = col[r][i].post]_vars

\* a collector skipped at its guard, its post with comments to fetch, while
\* another collector of the run has committed comments
C19_Witness ==
    \E r \in Requests : \E i \in Slots :
        /\ col[r][i].pc = "skipped"
        /\ CommentTree(col[r][i].post) # <<>>
        /\ \A c \in comments : c.post_id # col[r][i].post
        /\ \E j \in Slots : col[r][j].pc = "committed"

\* C20: when a collector has finished, every comment it merged without an
\* error, its post found by the re-check, is in the store, whatever
\* happened to the other comments of the post
C20_ChildrenCommitted ==
    [][\A r \in Requests : \A i \in Slots :
          (col[r][i].pc = "loop" /\ col'[r][i].pc \in Terminated) =>
              \A c \in col[r][i].pending :
                  CommentRow(c, col[r][i].post) \in comments']_vars

\* ------------------------------------------------------- status queries
\* C18: no status query answers done = true together with a percent below
\* 100, also when a run is started after an earlier one has completed
C18_DoneOnlyAtHundred ==
    (call.fn = "get_progress" /\ call.ret # <<>>) =>
        ~(call.ret.done /\ call.ret.progress < 100)

\* C21: in a single run, the step in which the expansion of one parent's
\* comment tree fails changes neither table, and while that collector is in
\* its failed state its parent row is in the store and no comment row names
\* that parent
C21_ExpandFailure ==
    /\ [][\A r \in Requests : \A i \in Slots :
            (col[r][i].pc = "expand" /\ col'[r][i].pc = "failed") =>
                comments' = comments /\ posts' = posts]_vars
    /\ [](\A r \in Requests : \A i \in Slots :
            col[r][i].pc = "failed" =>
                /\ ParentExists(col[r][i].post)
                /\ ~ \E c \in comments : c.post_id = col[r][i].post)

C21_Witness ==
    \E r \in Requests : \E i, j \in Slots :
        /\ col[r][i].pc = "failed"
        /\ col[r][j].pc = "committed"
        /\ ParentExists(col[r][i].post)
        /\ \E c \in comments : c.post_id = col[r][j].post
        /\ ~ \E c \in comments : c.post_id = col[r][i].post

\* C22: the clear deletes the comment rows first and the post rows next,
\* whatever their phrase: in every state of the clear each comment row has its
\* post row, and when the clear has committed both tables are empty
C22_ClearOrder ==
    /\ \A c \in comments : ParentExists(c.post_id)
    /\ \A r \in Requests :
          /\ pc[r] = "deletedComments" => comments = {}
          /\ pc[r] \in {"deletedPosts", "cleared"} =>
                posts = {} /\ comments = {}

C22_Witness ==
    /\ \E r \in Requests : pc[r] = "deletedComments"
    /\ call.arg[2] # {}
    /\ comments = {}
    /\ \E p, q \in posts :
          /\ p.search_phrase # q.search_phrase
          /\ \E c \in call.arg[2] : c.post_id = q.id
          /\ \E r \in Requests : phrase[r] = p.search_phrase

\* C23: in a single run the percent moves only in steps of the route and of
\* the coordinator, never in a step of a collector, so it reaches 100 with the
\* last parent while collectors may still run; done turns true only in the
\* step after the join, when the percent is 100 and no collector of the run
\* is running
C23_PercentBeforeDone ==
    /\ [][PROGRESS' # PROGRESS => pc' # pc]_vars
    /\ [][(~PROCESSING_DONE /\ PROCESSING_DONE') =>
            \E r \in Requests :
                /\ pc[r] = "finish" /\ pc'[r] = "done"
                /\ PROGRESS = 100
                /\ \A i \in Slots : col[r][i].pc \notin Running]_vars

C23_Witness ==
    /\ PROGRESS = 100
    /\ ~PROCESSING_DONE
    /\ TOTAL_POSTS >= 1
    /\ \E r \in Requests :
          /\ pc[r] = "loop"
          /\ Len(found[r]) = TOTAL_POSTS
          /\ Len(written[r]) = Len(found[r])
          /\ \E i \in Slots : col[r][i].pc \in Running

\* the latest start request that cleared the store
LastCleared(r) ==
    /\ pc[r] \notin {"idle"} \cup Rejected
    /\ \A q \in Requests : q > r => pc[q] \in {"idle"} \cup Rejected

\* C24: a results request passes the done check only when the run started by
\* the latest request that cleared the store has set done = true
C24_NoStaleDone ==
    [][(gpc = "idle" /\ gpc' = "analyze") =>
          \A r \in Requests : LastCleared(r) => pc[r] = "done"]_vars

\* C25: whatever the interleaving of start requests, while done = true no
\* coordinator is in its loop over the parents and no collector of any run is
\* running
C25_DoneMeansAllQuiet ==
    PROCESSING_DONE =>
        /\ \A r \in Requests : pc[r] \notin InLoop
        /\ \A r \in Requests : \A i \in Slots : col[r][i].pc \notin Running

====
